---- MODULE Spec2Model ----
(***************************************************************************)
(* Model of the macaroons crate (src/src/lib.rs, src/src/util.rs) with the *)
(* caveat types of src/src/test.rs.                                        *)
(*                                                                         *)
(* Byte strings are sequences of integers 0..255; text is a sequence of    *)
(* ASCII codes.  The MAC parameter M is instantiated with the HMAC         *)
(* construction (RFC 2104, what Hmac<D> computes) over a small digest of   *)
(* OutputSize bytes, so that key preparation, fixed-length tags and the    *)
(* base64 codec are all computed on real bytes.  The digest is a           *)
(* polynomial hash; the properties that rest on collision resistance are   *)
(* checked on inputs on which it has no collision.                         *)
(***************************************************************************)
EXTENDS Integers, Sequences, FiniteSets, TLC

\* ------------------------------------------------------------------------
\* Sizes of the MAC parameter M
\* ------------------------------------------------------------------------

\* <M as OutputSizeUser>::OutputSize, in bytes (model-sized digest)
OutputSize == 3

\* block size of the digest under HMAC, in bytes (key preparation)
BlockSize == 8

\* longest caveat list the model builds
MaxCaveats == 2

\* ------------------------------------------------------------------------
\* Bytes
\* ------------------------------------------------------------------------

RECURSIVE Xor(_, _)
Xor(a, b) ==
    IF a = 0 THEN b
    ELSE IF b = 0 THEN a
    ELSE (((a % 2) + (b % 2)) % 2) + 2 * Xor(a \div 2, b \div 2)

RECURSIVE ToBytes(_, _)
\* n as len little-endian bytes
ToBytes(n, len) ==
    IF len = 0 THEN <<>> ELSE <<n % 256>> \o ToBytes(n \div 256, len - 1)

RECURSIVE Zeros(_)
Zeros(n) == IF n <= 0 THEN <<>> ELSE <<0>> \o Zeros(n - 1)

RECURSIVE Absorb(_, _, _)
\* the digest's compression loop over bytes from position i
Absorb(acc, bytes, i) ==
    IF i > Len(bytes) THEN acc
    ELSE Absorb(((acc * 97) + bytes[i] + 1) % 16777216, bytes, i + 1)

\* Digest: bytes -> OutputSize bytes (Update + FixedOutput of the digest)
Digest(bytes) == ToBytes(Absorb(5381, bytes, 1), OutputSize)

\* HMAC key preparation: keys longer than a block are digested, then the
\* key is zero-padded to the block size (new_from_slice accepts any length)
PrepareKey(key) ==
    LET k == IF Len(key) > BlockSize THEN Digest(key) ELSE key
    IN  k \o Zeros(BlockSize - Len(k))

\* byte ^ 0x36 and byte ^ 0x5c for every byte
Ipad == [b \in 0..255 |-> Xor(b, 54)]
Opad == [b \in 0..255 |-> Xor(b, 92)]

XorPad(block, pad) == [i \in 1..Len(block) |-> pad[block[i]]]

\* <Self as Mac>::new_from_slice(key).chain_update(data).finalize().into_bytes()
process(key, data) ==
    LET k == PrepareKey(key)
    IN  Digest(XorPad(k, Opad) \o Digest(XorPad(k, Ipad) \o data))

\* ------------------------------------------------------------------------
\* Caveats of src/test.rs and their serde forms
\* ------------------------------------------------------------------------

\* RangeCaveat(Range<usize>) / AbstractRangeCaveat(Range<usize>): a value is
\* the record of the Range's fields
Range(s, e) == [start |-> s, end |-> e]

\* a range check that takes the end as inclusive
CaveatVerify_inclusive(c, ctx) ==
    IF c.start <= ctx /\ ctx <= c.end THEN "Ok" ELSE "Forbidden"

\* RangeCaveat::verify: self.0.contains(ctx), i.e. start <= ctx < end
CaveatVerify(c, ctx) ==
    IF c.start <= ctx /\ ctx < c.end THEN "Ok" ELSE "Forbidden"

\* derive(Serialize) of the newtype over Range: an object whose members are
\* in declaration order; an object is a sequence of <<name, value>> members
ToJson(c) == << <<"start", c.start>>, <<"end", c.end>> >>

\* derive(Deserialize): members are found by name, in any order
Member(obj, name) ==
    LET i == CHOOSE j \in 1..Len(obj) : obj[j][1] = name IN obj[i][2]

\* a deserializer that reads the members by position, end first
FromJson_swapped(obj) == Range(obj[2][2], obj[1][2])

FromJson(obj) == Range(Member(obj, "start"), Member(obj, "end"))

\* ASCII of the member names
NameBytes(name) ==
    IF name = "start" THEN <<115, 116, 97, 114, 116>> ELSE <<101, 110, 100>>

RECURSIVE LexLess(_, _)
LexLess(a, b) ==
    IF b = <<>> THEN FALSE
    ELSE IF a = <<>> THEN TRUE
    ELSE IF a[1] # b[1] THEN a[1] < b[1]
    ELSE LexLess(Tail(a), Tail(b))

RECURSIVE InsertMember(_, _)
InsertMember(m, sorted) ==
    IF sorted = <<>> THEN <<m>>
    ELSE IF LexLess(NameBytes(m[1]), NameBytes(sorted[1][1]))
         THEN <<m>> \o sorted
         ELSE <<sorted[1]>> \o InsertMember(m, Tail(sorted))

RECURSIVE SortMembers(_)
\* json!(caveat): serde_json's Map keeps object members ordered by key
SortMembers(obj) ==
    IF obj = <<>> THEN <<>> ELSE InsertMember(obj[1], SortMembers(Tail(obj)))

RECURSIVE Decimal(_)
\* ASCII decimal digits of a non-negative integer
Decimal(n) ==
    IF n < 10 THEN <<48 + n>> ELSE Decimal(n \div 10) \o <<48 + (n % 10)>>

RECURSIVE RenderMembers(_)
\* "name":value joined by commas, no whitespace
RenderMembers(obj) ==
    IF obj = <<>> THEN <<>>
    ELSE <<34>> \o NameBytes(obj[1][1]) \o <<34, 58>> \o Decimal(obj[1][2])
         \o (IF Len(obj) > 1 THEN <<44>> ELSE <<>>)
         \o RenderMembers(Tail(obj))

\* an encoding that renders the start member only
CanonicalJson_lossy(c) ==
    <<123>> \o RenderMembers(SubSeq(SortMembers(ToJson(c)), 2, 2)) \o <<125>>

\* canonical_json::to_string(&json!(caveat)).into_bytes()
CanonicalJson(c) == <<123>> \o RenderMembers(SortMembers(ToJson(c))) \o <<125>>

\* ------------------------------------------------------------------------
\* base64 URL_SAFE engine (util.rs)
\* ------------------------------------------------------------------------

\* the standard alphabet, + and / for 62 and 63
EncodeSymbol_standard(v) ==
    IF v < 26 THEN 65 + v
    ELSE IF v < 52 THEN 97 + (v - 26)
    ELSE IF v < 62 THEN 48 + (v - 52)
    ELSE IF v = 62 THEN 43 ELSE 47

\* alphabet A-Z a-z 0-9 - _
EncodeSymbol(v) ==
    IF v < 26 THEN 65 + v
    ELSE IF v < 52 THEN 97 + (v - 26)
    ELSE IF v < 62 THEN 48 + (v - 52)
    ELSE IF v = 62 THEN 45 ELSE 95

\* value of a symbol, -1 for a byte outside the alphabet
DecodeSymbol(ch) ==
    IF ch >= 65 /\ ch <= 90 THEN ch - 65
    ELSE IF ch >= 97 /\ ch <= 122 THEN (ch - 97) + 26
    ELSE IF ch >= 48 /\ ch <= 57 THEN (ch - 48) + 52
    ELSE IF ch = 45 THEN 62
    ELSE IF ch = 95 THEN 63 ELSE -1

RECURSIVE Base64Encode(_)
\* URL_SAFE.encode: 3 bytes -> 4 symbols, the last group padded with '='
Base64Encode(bytes) ==
    IF bytes = <<>> THEN <<>>
    ELSE IF Len(bytes) = 1 THEN
        << EncodeSymbol(bytes[1] \div 4), EncodeSymbol((bytes[1] % 4) * 16), 61, 61 >>
    ELSE IF Len(bytes) = 2 THEN
        << EncodeSymbol(bytes[1] \div 4),
           EncodeSymbol(((bytes[1] % 4) * 16) + (bytes[2] \div 16)),
           EncodeSymbol((bytes[2] % 16) * 4), 61 >>
    ELSE
        << EncodeSymbol(bytes[1] \div 4),
           EncodeSymbol(((bytes[1] % 4) * 16) + (bytes[2] \div 16)),
           EncodeSymbol(((bytes[2] % 16) * 4) + (bytes[3] \div 64)),
           EncodeSymbol(bytes[3] % 64) >>
        \o Base64Encode(SubSeq(bytes, 4, Len(bytes)))

\* number of trailing '=' of a text
Padding(text) ==
    IF Len(text) >= 2 /\ text[Len(text)] = 61 /\ text[Len(text) - 1] = 61 THEN 2
    ELSE IF Len(text) >= 1 /\ text[Len(text)] = 61 THEN 1 ELSE 0

RECURSIVE DecodeQuads(_)
\* bytes of complete groups of four symbols
DecodeQuads(vals) ==
    IF Len(vals) < 4 THEN <<>>
    ELSE << (vals[1] * 4) + (vals[2] \div 16),
            ((vals[2] % 16) * 16) + (vals[3] \div 4),
            ((vals[3] % 4) * 64) + vals[4] >>
         \o DecodeQuads(SubSeq(vals, 5, Len(vals)))

\* URL_SAFE.decode: canonical padding required, no symbol outside the
\* alphabet, no non-zero trailing bits
Base64Decode(text) ==
    LET pad  == Padding(text)
        body == SubSeq(text, 1, Len(text) - pad)
        vals == [i \in 1..Len(body) |-> DecodeSymbol(body[i])]
        full == Len(body) \div 4
        rest == SubSeq(vals, (4 * full) + 1, Len(vals))
    IN  IF (Len(text) % 4) # 0 THEN [ok |-> FALSE, bytes |-> <<>>]
        ELSE IF \E i \in 1..Len(vals) : vals[i] < 0 THEN [ok |-> FALSE, bytes |-> <<>>]
        ELSE IF pad = 0 THEN [ok |-> TRUE, bytes |-> DecodeQuads(vals)]
        ELSE IF pad = 1 THEN
            IF (rest[3] % 4) # 0 THEN [ok |-> FALSE, bytes |-> <<>>]
            ELSE [ok |-> TRUE,
                  bytes |-> DecodeQuads(SubSeq(vals, 1, 4 * full))
                            \o << (rest[1] * 4) + (rest[2] \div 16),
                                  ((rest[2] % 16) * 16) + (rest[3] \div 4) >>]
        ELSE
            IF (rest[2] % 16) # 0 THEN [ok |-> FALSE, bytes |-> <<>>]
            ELSE [ok |-> TRUE,
                  bytes |-> DecodeQuads(SubSeq(vals, 1, 4 * full))
                            \o << (rest[1] * 4) + (rest[2] \div 16) >>]

\* as_base64: the signature as a JSON string
as_base64(data) == Base64Encode(data)

\* from_base64: decode error of the codec is an Err; the decoded bytes go
\* through GenericArray::from_slice, which asserts the length (panic)
from_base64(text) ==
    LET d == Base64Decode(text)
    IN  IF ~d.ok THEN [status |-> "Err", bytes |-> <<>>]
        ELSE IF Len(d.bytes) # OutputSize THEN [status |-> "Panic", bytes |-> <<>>]
        ELSE [status |-> "Ok", bytes |-> d.bytes]

\* ------------------------------------------------------------------------
\* Macaroon<C, M> (lib.rs): fields .0 id, .1 caveats, .2 sig
\* ------------------------------------------------------------------------

\* a constructor that passes the identifier as the key
new_swapped(id, key) == [id |-> id, caveats |-> <<>>, sig |-> process(id, key)]

\* Macaroon::new
new(id, key) == [id |-> id, caveats |-> <<>>, sig |-> process(key, id)]

\* an attenuation that puts the new caveat first
attenuate_prepend(self, caveat) ==
    [id      |-> self.id,
     caveats |-> <<caveat>> \o self.caveats,
     sig     |-> process(self.sig, CanonicalJson(caveat))]

\* Macaroon::attenuate
attenuate(self, caveat) ==
    [id      |-> self.id,
     caveats |-> Append(self.caveats, caveat),
     sig     |-> process(self.sig, CanonicalJson(caveat))]

\* Macaroon::tail
tail(self) == self.sig

RECURSIVE Fold(_, _, _)
\* .fold(key, |key, data| M::process(key, data)) over data[i..]
Fold(key, data, i) ==
    IF i > Len(data) THEN key ELSE Fold(process(key, data[i]), data, i + 1)

\* the expected signature recomputed by verify from (key, id, caveats)
expected_signature(self, key) ==
    Fold(key,
         <<self.id>> \o [i \in 1..Len(self.caveats) |-> CanonicalJson(self.caveats[i])],
         1)

NoCalls(self) == [i \in 1..Len(self.caveats) |-> 0]

RECURSIVE try_for_each_all(_, _, _, _)
\* a loop that evaluates every caveat and reports the first failure
try_for_each_all(caveats, ctx, i, calls) ==
    IF i > Len(caveats) THEN [result |-> "Ok", err |-> "", at |-> 0, calls |-> calls]
    ELSE LET r    == CaveatVerify(caveats[i], ctx)
             n    == [calls EXCEPT ![i] = @ + 1]
             rest == try_for_each_all(caveats, ctx, i + 1, n)
         IN  IF r # "Ok"
             THEN [result |-> "CaveatFailed", err |-> r, at |-> i, calls |-> rest.calls]
             ELSE rest

RECURSIVE try_for_each(_, _, _, _)
\* caveats[i..] are verified in order until one fails; calls counts the
\* Caveat::verify invocations per caveat, at is the index of the caveat whose
\* error is returned (0 when all pass)
try_for_each(caveats, ctx, i, calls) ==
    IF i > Len(caveats) THEN [result |-> "Ok", err |-> "", at |-> 0, calls |-> calls]
    ELSE LET r == CaveatVerify(caveats[i], ctx)
             n == [calls EXCEPT ![i] = @ + 1]
         IN  IF r # "Ok"
             THEN [result |-> "CaveatFailed", err |-> r, at |-> i, calls |-> n]
             ELSE try_for_each(caveats, ctx, i + 1, n)

\* a verify that never compares the signature
verify_unchecked(self, expected, ctx) ==
    try_for_each(self.caveats, ctx, 1, NoCalls(self))

\* a verify that runs the caveats before it compares the signature
verify_caveats_first(self, expected, ctx) ==
    LET r == try_for_each(self.caveats, ctx, 1, NoCalls(self))
    IN  IF expected # self.sig
        THEN [result |-> "InvalidToken", err |-> "", at |-> 0, calls |-> r.calls]
        ELSE r

\* Macaroon::verify after the fold: the comparison with the stored signature,
\* then the caveats
verify(self, expected, ctx) ==
    IF expected # self.sig
    THEN [result |-> "InvalidToken", err |-> "", at |-> 0, calls |-> NoCalls(self)]
    ELSE try_for_each(self.caveats, ctx, 1, NoCalls(self))

\* derive(Serialize) of Macaroon: [id, [caveat, ...], "base64 signature"]
serialize(self) ==
    [id      |-> self.id,
     caveats |-> [i \in 1..Len(self.caveats) |-> ToJson(self.caveats[i])],
     sig     |-> as_base64(self.sig)]

\* derive(Deserialize) of Macaroon: status Ok with the token, Err for a
\* decode error, Panic when from_base64 panics
deserialize(env) ==
    LET s == from_base64(env.sig)
    IN  [status |-> s.status,
         token  |-> [id      |-> env.id,
                     caveats |-> [i \in 1..Len(env.caveats) |-> FromJson(env.caveats[i])],
                     sig     |-> s.bytes]]

\* ------------------------------------------------------------------------
\* Inputs
\* ------------------------------------------------------------------------

\* "key", "key\0", and "mysecretk", a key longer than the block size
Keys ==
    { <<107, 101, 121>>, <<107, 101, 121, 0>>,
      <<109, 121, 115, 101, 99, 114, 101, 116, 107>> }

\* "m", "n"
Ids == { <<109>>, <<110>> }

\* ranges of the tests: nested 10..20 and 14..18, disjoint 10..14 and 16..18
Caveats == { Range(10, 20), Range(14, 18), Range(10, 14), Range(16, 18) }

\* contexts of the tests' sweep 9..19 on both sides of every range bound
Contexts == {9, 10} \cup (13..19)

\* the inputs of the runs that also serialize, alter and deserialize
WireKeys == { <<107, 101, 121>>, <<109, 121, 115, 101, 99, 114, 101, 116, 107>> }
WireIds == { <<109>> }
WireCaveats == { Range(10, 20), Range(14, 18), Range(10, 14) }
WireContexts == { 13, 14, 17, 18 }

\* ------------------------------------------------------------------------
\* State
\* ------------------------------------------------------------------------

VARIABLES
    tok,        \* the token value held
    role,       \* "server": C is RangeCaveat; "client": C is AbstractRangeCaveat
    wire,       \* the serialized envelope in transit, <<>> when none
    last,       \* the last operation with its inputs and its return value
    rootKey,    \* the key given to Macaroon::new (never stored in tok)
    signedFor,  \* the caveats over which tok.sig was chained by new/attenuate
    forged,     \* tok.sig was not produced by new/attenuate
    tampered    \* the envelope was altered in transit since new

vars == <<tok, role, wire, last, rootKey, signedFor, forged, tampered>>

Op(name) ==
    [op |-> name, key |-> <<>>, ctx |-> 0, result |-> "", err |-> "",
     at |-> 0, calls |-> <<>>, out |-> <<>>]

Init ==
    \E id \in WireIds, key \in WireKeys :
        /\ tok = new(id, key)
        /\ role = "server"
        /\ wire = <<>>
        /\ last = Op("new")
        /\ rootKey = key
        /\ signedFor = <<>>
        /\ forged = FALSE
        /\ tampered = FALSE

\* the issuer creates a fresh token
New(id, key) ==
    /\ wire = <<>>
    /\ tok' = new(id, key)
    /\ role' = "server"
    /\ last' = Op("new")
    /\ rootKey' = key
    /\ signedFor' = <<>>
    /\ forged' = FALSE
    /\ tampered' = FALSE
    /\ UNCHANGED wire

\* the holder (server or client) appends a caveat
Attenuate(c) ==
    /\ wire = <<>>
    /\ Len(tok.caveats) < MaxCaveats
    /\ tok' = attenuate(tok, c)
    /\ signedFor' = Append(signedFor, c)
    /\ last' = Op("attenuate")
    /\ UNCHANGED <<role, wire, rootKey, forged, tampered>>

\* the holder reads the current tag
TailOp ==
    /\ wire = <<>>
    /\ last' = [Op("tail") EXCEPT !.out = tail(tok)]
    /\ UNCHANGED <<tok, role, wire, rootKey, signedFor, forged, tampered>>

\* a verifier (C: Caveat) checks the token: macaroon.verify(key, &ctx)
Verify(key, ctxs) ==
    /\ wire = <<>>
    /\ role = "server"
    /\ \E expected \in {expected_signature(tok, key)}, ctx \in ctxs :
           \E v \in {verify(tok, expected, ctx)} :
               last' = [Op("verify") EXCEPT !.key = key, !.ctx = ctx,
                            !.result = v.result, !.err = v.err, !.at = v.at,
                            !.calls = v.calls]
    /\ UNCHANGED <<tok, role, wire, rootKey, signedFor, forged, tampered>>

\* serde_json::to_string(&macaroon)
Serialize ==
    /\ wire = <<>>
    /\ wire' = <<serialize(tok)>>
    /\ last' = Op("serialize")
    /\ UNCHANGED <<tok, role, rootKey, signedFor, forged, tampered>>

RemoveAt(seq, i) == SubSeq(seq, 1, i - 1) \o SubSeq(seq, i + 1, Len(seq))
InsertAt(seq, i, x) == SubSeq(seq, 1, i - 1) \o <<x>> \o SubSeq(seq, i, Len(seq))
SwapAt(seq, i) == [seq EXCEPT ![i] = seq[i + 1], ![i + 1] = seq[i]]

\* signature texts an envelope may arrive with: a symbol outside the
\* alphabet, the padding dropped, a truncated and an over-long byte string in
\* valid base64, a different tag of the right length, the empty string
SignatureTexts(sig) ==
    { <<43>> \o Tail(as_base64(sig)),
      SubSeq(as_base64(sig), 1, 3),
      as_base64(SubSeq(sig, 1, OutputSize - 1)),
      as_base64(sig \o <<0>>),
      as_base64(Digest(sig)),
      <<>> }

\* the envelope is altered in transit: another signature text
TamperSignature(text) ==
    /\ wire # <<>>
    /\ ~tampered
    /\ wire' = <<[wire[1] EXCEPT !.sig = text]>>
    /\ tampered' = TRUE
    /\ last' = Op("tamper")
    /\ UNCHANGED <<tok, role, rootKey, signedFor, forged>>

\* the caveat lists one edit away from list: two neighbours swapped, one
\* caveat removed, one caveat of cs inserted
CaveatEdits(list, cs) ==
    { SwapAt(list, i) : i \in 1..(Len(list) - 1) }
    \cup { RemoveAt(list, i) : i \in 1..Len(list) }
    \cup { InsertAt(list, i, ToJson(c)) :
             i \in (IF Len(list) < MaxCaveats THEN 1..(Len(list) + 1) ELSE {}),
             c \in cs }

\* the envelope is altered in transit: a caveat reordered, removed or inserted
TamperCaveats(list) ==
    /\ wire # <<>>
    /\ ~tampered
    /\ wire' = <<[wire[1] EXCEPT !.caveats = list]>>
    /\ tampered' = TRUE
    /\ last' = Op("tamper")
    /\ UNCHANGED <<tok, role, rootKey, signedFor, forged>>

\* serde_json::from_str::<Macaroon<C, M>>(&serialized), C chosen by r
Deserialize(r) ==
    /\ wire # <<>>
    /\ LET d == deserialize(wire[1])
       IN  /\ last' = [Op("deserialize") EXCEPT !.result = d.status]
           /\ IF d.status = "Ok"
              THEN /\ tok' = d.token
                   /\ role' = r
                   /\ forged' = (forged \/ d.token.sig # tok.sig)
              ELSE UNCHANGED <<tok, role, forged>>
    /\ wire' = <<>>
    /\ UNCHANGED <<rootKey, signedFor, tampered>>

NextCore ==
    \/ \E id \in Ids, key \in Keys : New(id, key)
    \/ \E c \in Caveats : Attenuate(c)
    \/ TailOp
    \/ \E key \in Keys : Verify(key, Contexts)

\* issuer and verifier only
SpecCore == Init /\ [][NextCore]_vars

InFlight == IF wire = <<>> THEN {} ELSE {wire[1]}

Next ==
    \/ \E id \in WireIds, key \in WireKeys : New(id, key)
    \/ \E c \in WireCaveats : Attenuate(c)
    \/ TailOp
    \/ \E key \in Keys : Verify(key, WireContexts)
    \/ Serialize
    \/ \E text \in SignatureTexts(tok.sig) : TamperSignature(text)
    \/ \E env \in InFlight : \E list \in CaveatEdits(env.caveats, WireCaveats) :
           TamperCaveats(list)
    \/ \E r \in {"server", "client"} : Deserialize(r)

\* issuer, client, transport and verifier
Spec == Init /\ [][Next]_vars

\* ------------------------------------------------------------------------
\* Properties
\* ------------------------------------------------------------------------

RECURSIVE ChainTag(_, _, _)
\* t_0 = mac(key, id), t_i = mac(t_(i-1), encode(c_i))
ChainTag(key, id, cs) ==
    IF cs = <<>> THEN process(key, id)
    ELSE process(ChainTag(key, id, SubSeq(cs, 1, Len(cs) - 1)), CanonicalJson(cs[Len(cs)]))

RECURSIVE Built(_, _, _)
\* the token the key holder obtains by new(id, key) and attenuate(c) for c in cs
Built(key, id, cs) ==
    IF cs = <<>> THEN new(id, key)
    ELSE attenuate(Built(key, id, SubSeq(cs, 1, Len(cs) - 1)), cs[Len(cs)])

Accepts(c, ctx) == c.start <= ctx /\ ctx < c.end

AllAccept(cs, ctx) == \A i \in 1..Len(cs) : Accepts(cs[i], ctx)

\* the contexts a token is verified Ok for under key
AcceptSet(t, key, ctxs) ==
    UNION { { ctx \in ctxs : verify(t, e, ctx).result = "Ok" } :
            e \in {expected_signature(t, key)} }

IsPrefix(a, b) == Len(a) <= Len(b) /\ SubSeq(b, 1, Len(a)) = a

\* C1: after new(id, key) and attenuate(c_1) .. attenuate(c_n) the stored
\* signature is the chain tag t_n over [c_1, .., c_n], the stored caveat list
\* is exactly [c_1, .., c_n], and verify with that key is never InvalidToken.
C1_SignatureIsChain ==
    /\ tok.caveats = signedFor
    /\ tok.sig = ChainTag(rootKey, tok.id, signedFor)
    /\ (last.op = "verify" /\ last.key = rootKey) => last.result # "InvalidToken"

C1_Witness ==
    /\ last.op = "verify"
    /\ last.key = rootKey
    /\ Len(tok.caveats) = 2
    /\ last.result = "Ok"

\* C2: verified with its creation key, a token built by new and attenuate is
\* Ok exactly when every caveat accepts the context and CaveatFailed
\* otherwise; [10..20, 14..18] accepts exactly 14..17, disjoint ranges accept
\* nothing, and an attenuate step never enlarges the accepted set.
C2_AcceptIsIntersection ==
    /\ [](last.op = "verify" /\ last.key = rootKey =>
            /\ last.result = (IF AllAccept(tok.caveats, last.ctx) THEN "Ok" ELSE "CaveatFailed")
            /\ tok.caveats = <<Range(10, 20), Range(14, 18)>> =>
                   (last.result = "Ok" <=> last.ctx \in 14..17)
            /\ tok.caveats = <<Range(10, 14), Range(16, 18)>> => last.result # "Ok")
    /\ [][last'.op = "attenuate" =>
            AcceptSet(tok', rootKey, Contexts) \subseteq AcceptSet(tok, rootKey, Contexts)]_vars

C2_Witness ==
    /\ last.op = "verify"
    /\ last.key = rootKey
    /\ tok.caveats = <<Range(10, 20), Range(14, 18)>>
    /\ last.ctx = 17
    /\ last.result = "Ok"

\* C3 as stated: verify with any key different from the creation key returns
\* InvalidToken.
C3_AnyOtherKeyRejected ==
    (last.op = "verify" /\ last.key # rootKey) => last.result = "InvalidToken"

\* C3 amended: verify returns InvalidToken for every key that key preparation
\* does not map to the block of the creation key; a key that is prepared to
\* the same block (trailing zero bytes) verifies like the creation key.
C3_OtherPreparedKeyRejected ==
    last.op = "verify" =>
        /\ PrepareKey(last.key) # PrepareKey(rootKey) => last.result = "InvalidToken"
        /\ PrepareKey(last.key) = PrepareKey(rootKey) =>
               last.result = (IF AllAccept(tok.caveats, last.ctx) THEN "Ok" ELSE "CaveatFailed")

C3_Witness ==
    /\ last.op = "verify"
    /\ PrepareKey(last.key) # PrepareKey(rootKey)
    /\ Len(tok.caveats) >= 1
    /\ AllAccept(tok.caveats, last.ctx)
    /\ last.result = "InvalidToken"

\* C4: when the signature recomputed from (key, id, caveats) differs from the
\* stored one, verify returns InvalidToken and no Caveat::verify was invoked.
C4_SignatureBeforeCaveats ==
    (last.op = "verify" /\ expected_signature(tok, last.key) # tok.sig) =>
        /\ last.result = "InvalidToken"
        /\ \A i \in 1..Len(last.calls) : last.calls[i] = 0

C4_Witness ==
    /\ last.op = "verify"
    /\ last.key = rootKey
    /\ tok.caveats # signedFor
    /\ Len(tok.caveats) >= 1
    /\ ~AllAccept(tok.caveats, last.ctx)
    /\ last.result = "InvalidToken"
    /\ last.calls = <<0>>

\* C5: when the signature matches, the caveats are evaluated in storage
\* order up to the first one that rejects: the result carries that caveat's
\* error, every caveat up to it was evaluated once, none after it.
C5_FailFast ==
    (last.op = "verify" /\ expected_signature(tok, last.key) = tok.sig) =>
        LET cs  == tok.caveats
            bad == { i \in 1..Len(cs) : ~Accepts(cs[i], last.ctx) }
        IN  IF bad = {}
            THEN /\ last.result = "Ok"
                 /\ \A i \in 1..Len(cs) : last.calls[i] = 1
            ELSE LET first == CHOOSE i \in bad : \A j \in bad : i <= j
                 IN  /\ last.result = "CaveatFailed"
                     /\ last.err = "Forbidden"
                     /\ last.at = first
                     /\ \A i \in 1..Len(cs) :
                            last.calls[i] = (IF i <= first THEN 1 ELSE 0)

C5_Witness ==
    /\ last.op = "verify"
    /\ Len(tok.caveats) = 2
    /\ ~Accepts(tok.caveats[1], last.ctx)
    /\ Accepts(tok.caveats[2], last.ctx)
    /\ last.result = "CaveatFailed"
    /\ last.at = 1
    /\ last.calls = <<1, 0>>

\* C6: the signature binds the ordered caveat list: attenuating [A, B] and
\* [B, A] gives different signatures, and a token carrying the signature
\* chained over S with a caveat list S' # S is InvalidToken under the
\* creation key.
C6_SignatureBindsOrder ==
    /\ (~forged /\ Len(signedFor) >= 2 /\ signedFor[1] # signedFor[2]) =>
           tok.sig # Built(rootKey, tok.id, SwapAt(signedFor, 1)).sig
    /\ (last.op = "verify" /\ last.key = rootKey /\ ~forged /\ tok.caveats # signedFor) =>
           last.result = "InvalidToken"

C6_Witness ==
    /\ last.op = "verify"
    /\ last.key = rootKey
    /\ ~forged
    /\ Len(signedFor) = 2
    /\ tok.caveats = SwapAt(signedFor, 1)
    /\ tok.caveats # signedFor
    /\ AllAccept(tok.caveats, last.ctx)
    /\ last.result = "InvalidToken"

\* C7: the envelope of a token deserializes to a token with the same
\* identifier, caveat list and signature bytes, which verifies like the
\* original for every key and context.
C7_RoundTrip ==
    /\ last.op = "serialize" =>
           LET d == deserialize(wire[1])
           IN  /\ d.status = "Ok"
               /\ d.token.id = tok.id
               /\ d.token.caveats = tok.caveats
               /\ d.token.sig = tok.sig
               /\ \A key \in Keys, ctx \in WireContexts :
                      verify(d.token, expected_signature(d.token, key), ctx)
                          = verify(tok, expected_signature(tok, key), ctx)
    /\ (last.op = "deserialize" /\ ~tampered) =>
           /\ last.result = "Ok"
           /\ ~forged
           /\ tok.caveats = signedFor

C7_Witness ==
    /\ last.op = "deserialize"
    /\ ~tampered
    /\ last.result = "Ok"
    /\ Len(tok.caveats) = 2

\* C8: deserialization of an envelope never panics: it ends with a token or
\* with a decode error, whatever the signature text.
C8_DecodeNeverPanics ==
    last.op = "deserialize" => last.result \in {"Ok", "Err"}

\* C9: a client that deserializes a validly signed token, attenuates it and
\* serializes it again produces the envelope the key holder obtains by
\* attenuating with the same caveats, and the decoded result verifies under
\* the root key like the key holder's token.
C9_ClientRefine ==
    (last.op = "attenuate" /\ role = "client" /\ ~tampered) =>
        LET reference == Built(rootKey, tok.id, signedFor)
            decoded   == deserialize(serialize(tok))
        IN  /\ serialize(tok) = serialize(reference)
            /\ decoded.status = "Ok"
            /\ AcceptSet(decoded.token, rootKey, WireContexts)
                   = AcceptSet(reference, rootKey, WireContexts)
            /\ AcceptSet(decoded.token, rootKey, WireContexts)
                   = { ctx \in WireContexts : AllAccept(signedFor, ctx) }

C9_Witness ==
    /\ last.op = "attenuate"
    /\ role = "client"
    /\ ~tampered
    /\ tok.caveats = <<Range(10, 20), Range(14, 18)>>

\* C10: attenuate keeps the identifier, keeps the previous caveat list as a
\* prefix and appends exactly one caveat; verify and tail change no field of
\* the token.
C10_AppendOnly ==
    [][/\ last'.op = "attenuate" =>
            /\ tok'.id = tok.id
            /\ Len(tok'.caveats) = Len(tok.caveats) + 1
            /\ IsPrefix(tok.caveats, tok'.caveats)
            /\ tok'.caveats[Len(tok'.caveats)] = signedFor'[Len(signedFor')]
       /\ last'.op \in {"verify", "tail"} => tok' = tok
       /\ last'.op # "new" => IsPrefix(tok.caveats, tok'.caveats)]_vars

C10_Witness ==
    /\ last.op = "attenuate"
    /\ Len(tok.caveats) = 2
    /\ tok.caveats[1] # tok.caveats[2]

====
